---- MODULE Spec2Model ----
(***************************************************************************)
(* State-machine model of frontend/src/App.jsx: the ThemeProvider, the     *)
(* AuthProvider (session bootstrap, login, logout), the ProtectedRoute     *)
(* guard and the AppContent shell with its route table.                    *)
(*                                                                         *)
(* JavaScript runs each task to completion, so one action is one task:     *)
(* the flush of the mount effects, the continuation of checkAuthStatus     *)
(* after each await, one event handler, one re-render with its effects.    *)
(* The React state variables hold the value the next render reads.         *)
(***************************************************************************)
EXTENDS Naturals, Sequences, FiniteSets, TLC

\* ------------------------------------------------------------------ values

\* User records, opaque to this component.
Users == {"alice", "bob"}

\* JavaScript null: what localStorage.getItem returns for an absent key, and
\* the initial value of useState(null).
Null == "null"

TokenKey == "inboxly-token"
ThemeKey == "inboxly-theme"

\* Bearer tokens: what login() is handed and what the backend is asked about.
Tokens == {"abc", "xyz"}

\* What the store can hold under the token key when the page loads: nothing,
\* a token, or the empty string, which `if (token)` treats like no token.
StoredTokens == Tokens \cup {Null, ""}

\* What login() is handed and what response.json() yields: a user record, or
\* null (a body of `null` is valid JSON, and nothing stops a caller passing
\* null).
UserData == Users \cup {Null}

\* What an earlier page (or anything else) can have left under the theme key.
ThemeStrings == {"light", "dark", "blue"}

\* Locations of the route table.
Paths == {"/", "/profile", "/auth"}

\* Number of page loads (mounts of the component tree) explored.
MaxMounts == 2
\* Longest browser history explored.
MaxHistory == 2

VARIABLES
    localStorage,     \* the persisted store: key -> string or Null (absent)
    isDark,           \* ThemeProvider state
    effectDark,       \* the isDark value the [isDark] effect last ran with
    darkClass,        \* documentElement.classList contains "dark"
    isAuthenticated,  \* AuthProvider state
    user,             \* AuthProvider state
    loading,          \* AuthProvider state
    pc,               \* where checkAuthStatus of this mount stands
    token,            \* checkAuthStatus's local `token` (Null before it ran)
    requests,         \* fetch('/api/auth/verify') calls issued by this mount
    loadingSets,      \* setLoading(false) calls made by this mount
    mounts,           \* page loads so far
    started,          \* AppContent state
    history,          \* browser history: sequence of locations
    idx,              \* position of the current entry in history
    lastOp,           \* the step that led to this state: see Op
    rejection,        \* whether this or the previous mount's verification was
                      \* rejected, and whether login() was called after that
    loggedOut         \* logout() was called in this mount, and login() not since

vars == <<localStorage, isDark, effectDark, darkClass, isAuthenticated, user,
          loading, pc, token, requests, loadingSets, mounts, started, history,
          idx, lastOp, rejection, loggedOut>>

themeVars == <<isDark, effectDark, darkClass>>
authVars == <<isAuthenticated, user, loading>>
bootVars == <<pc, token, requests, loadingSets>>
routeVars == <<started, history, idx>>


\* ----------------------------------------------------------- pure helpers

\* JavaScript truthiness of a value read from localStorage: null and the
\* empty string are falsy, every other string is truthy.
Truthy(v) == v # Null /\ v # ""

\* isDark ? "dark" : "light"
Canonical(dark) == IF dark THEN "dark" ELSE "light"

\* The first mount effect reading anything but "dark" as light.
SavedThemeDarkOnly(savedTheme, dark) ==
    IF savedTheme = "dark" THEN TRUE ELSE FALSE

\* The first mount effect of ThemeProvider: the state isDark has after it.
SavedTheme(savedTheme, dark) ==
    IF savedTheme = "light" THEN FALSE
    ELSE IF savedTheme = "dark" THEN TRUE
    ELSE dark

\* ProtectedRoute without the `if (loading)` branch.
ProtectedRouteNoSpinner(auth, load) ==
    IF auth THEN "children" ELSE "navigate"

\* What ProtectedRoute returns for the session it reads from useAuth().
ProtectedRoute(auth, load) ==
    IF load THEN "spinner"
    ELSE IF auth THEN "children" ELSE "navigate"

\* The element the route table renders for a location.
Route(path) ==
    CASE path = "/" -> "LandingPage"
      [] path = "/profile" -> "ProtectedRoute"
      [] path = "/auth" -> "Auth"
      [] OTHER -> "Page not found"

location == history[idx]

\* What AppContent shows in the current state.
AppContent ==
    IF ~started THEN "WelcomeScreen"
    ELSE IF Route(location) = "ProtectedRoute"
         THEN ProtectedRoute(isAuthenticated, loading)
         ELSE Route(location)

\* ------------------------------------------------------- persisted store

getItem(store, key) == store[key]
setItem(store, key, value) == [store EXCEPT ![key] = value]
removeItem(store, key) == [store EXCEPT ![key] = Null]

\* The record of a step: its name and inputs, and what it found before it
\* ran (isAuthenticated, user, isDark, the persisted token and theme).
Op(name, t, u) ==
    [op |-> name, token |-> t, userData |-> u, auth |-> isAuthenticated,
     stored |-> getItem(localStorage, TokenKey), user |-> user,
     theme |-> getItem(localStorage, ThemeKey), dark |-> isDark]

\* ------------------------------------------------------------------- Init

\* The state after the first render of <App/>: the useState initial values,
\* no effect run yet, whatever earlier sessions left in the store, and the
\* location the page was opened at.
Init ==
    /\ \E t \in StoredTokens, th \in ThemeStrings \cup {Null} :
          localStorage = (TokenKey :> t) @@ (ThemeKey :> th)
    /\ isDark = TRUE
    /\ effectDark = TRUE
    /\ darkClass = FALSE
    /\ isAuthenticated = FALSE
    /\ user = Null
    /\ loading = TRUE
    /\ pc = "mount"
    /\ token = Null
    /\ requests = 0
    /\ loadingSets = 0
    /\ mounts = 1
    /\ started = FALSE
    /\ \E p \in Paths : history = <<p>>
    /\ idx = 1
    /\ lastOp = [op |-> "init", token |-> Null, userData |-> Null,
                 auth |-> FALSE, stored |-> getItem(localStorage, TokenKey),
                 user |-> Null, theme |-> getItem(localStorage, ThemeKey),
                 dark |-> TRUE]
    /\ rejection = "none"
    /\ loggedOut = FALSE

\* ------------------------------------------------------------ ThemeProvider

\* The two mount effects of ThemeProvider, run in one flush: the first reads
\* the saved theme and queues the state change, the second still sees the
\* isDark of the first render.
ThemeMountEffects ==
    /\ isDark' = SavedTheme(getItem(localStorage, ThemeKey), isDark)
    /\ darkClass' = isDark
    /\ localStorage' = setItem(localStorage, ThemeKey, Canonical(isDark))
    /\ effectDark' = isDark

\* The re-render after isDark changed, with the [isDark] effect it triggers.
ThemeEffect ==
    /\ pc # "mount"
    /\ isDark # effectDark
    /\ darkClass' = isDark
    /\ localStorage' = setItem(localStorage, ThemeKey, Canonical(isDark))
    /\ effectDark' = isDark
    /\ lastOp' = Op("themeEffect", Null, Null)
    /\ UNCHANGED <<isDark, authVars, bootVars, mounts, routeVars>>
    /\ UNCHANGED <<rejection, loggedOut>>

\* toggleTheme() switching to light instead of flipping.
toggleThemeToLight ==
    /\ pc # "mount"
    /\ isDark' = FALSE
    /\ lastOp' = Op("toggleTheme", Null, Null)
    /\ UNCHANGED <<localStorage, effectDark, darkClass, authVars, bootVars,
                   mounts, routeVars>>
    /\ UNCHANGED <<rejection, loggedOut>>

toggleTheme ==
    /\ pc # "mount"
    /\ isDark' = ~isDark
    /\ lastOp' = Op("toggleTheme", Null, Null)
    /\ UNCHANGED <<localStorage, effectDark, darkClass, authVars, bootVars,
                   mounts, routeVars>>
    /\ UNCHANGED <<rejection, loggedOut>>

\* ------------------------------------------------------------- AuthProvider

\* checkAuthStatus without the `if (token)` test: it always asks the backend.
checkAuthStatusAlwaysFetch ==
    /\ token' = getItem(localStorage, TokenKey)
    /\ requests' = requests + 1
    /\ pc' = "awaitFetch"
    /\ UNCHANGED <<loading, loadingSets, isAuthenticated, user>>

\* checkAuthStatus from its call up to the first await, or to its end when
\* there is no token to verify.
checkAuthStatus ==
    /\ token' = getItem(localStorage, TokenKey)
    /\ IF Truthy(token')
       THEN /\ requests' = requests + 1
            /\ pc' = "awaitFetch"
            /\ UNCHANGED <<loading, loadingSets>>
       ELSE /\ loading' = FALSE
            /\ loadingSets' = loadingSets + 1
            /\ pc' = "done"
            /\ UNCHANGED requests
    /\ UNCHANGED <<isAuthenticated, user>>

\* The flush of the mount effects of the tree: AuthProvider's and
\* ThemeProvider's.
Mount ==
    /\ pc = "mount"
    /\ checkAuthStatus
    /\ ThemeMountEffects
    /\ lastOp' = Op("mount", Null, Null)
    /\ UNCHANGED <<mounts, routeVars>>
    /\ UNCHANGED <<rejection, loggedOut>>

\* `await fetch(...)` resolves with a success status: checkAuthStatus goes on
\* to `await response.json()`.
ResponseOk ==
    /\ pc = "awaitFetch"
    /\ pc' = "awaitJson"
    /\ lastOp' = Op("responseOk", token, Null)
    /\ UNCHANGED <<localStorage, themeVars, authVars, token, requests,
                   loadingSets, mounts, routeVars>>
    /\ UNCHANGED <<rejection, loggedOut>>

\* The else branch without localStorage.removeItem.
ResponseNotOkKeepsToken ==
    /\ pc = "awaitFetch"
    /\ loading' = FALSE
    /\ loadingSets' = loadingSets + 1
    /\ pc' = "done"
    /\ lastOp' = Op("responseNotOk", token, Null)
    /\ UNCHANGED <<localStorage, themeVars, isAuthenticated, user, token,
                   requests, mounts, routeVars>>
    /\ rejection' = "rejected"
    /\ UNCHANGED loggedOut

\* `await fetch(...)` resolves with a non-success status: the else branch,
\* then finally.
ResponseNotOk ==
    /\ pc = "awaitFetch"
    /\ localStorage' = removeItem(localStorage, TokenKey)
    /\ loading' = FALSE
    /\ loadingSets' = loadingSets + 1
    /\ pc' = "done"
    /\ lastOp' = Op("responseNotOk", token, Null)
    /\ UNCHANGED <<themeVars, isAuthenticated, user, token, requests, mounts,
                   routeVars>>
    /\ rejection' = "rejected"
    /\ UNCHANGED loggedOut

\* The catch branch without the finally block.
AuthCheckFailedNoFinally ==
    /\ pc \in {"awaitFetch", "awaitJson"}
    /\ pc' = "done"
    /\ lastOp' = Op(IF pc = "awaitFetch" THEN "fetchFailed" ELSE "jsonFailed",
                    token, Null)
    /\ UNCHANGED <<localStorage, themeVars, authVars, token, requests,
                   loadingSets, mounts, routeVars>>
    /\ UNCHANGED <<rejection, loggedOut>>

\* The catch branch treating a failure like a rejected credential.
AuthCheckFailedRemovesToken ==
    /\ pc \in {"awaitFetch", "awaitJson"}
    /\ localStorage' = removeItem(localStorage, TokenKey)
    /\ loading' = FALSE
    /\ loadingSets' = loadingSets + 1
    /\ pc' = "done"
    /\ lastOp' = Op(IF pc = "awaitFetch" THEN "fetchFailed" ELSE "jsonFailed",
                    token, Null)
    /\ UNCHANGED <<themeVars, isAuthenticated, user, token, requests, mounts,
                   routeVars>>
    /\ UNCHANGED <<rejection, loggedOut>>

\* `await fetch(...)` or `await response.json()` rejects: catch, then finally.
AuthCheckFailed ==
    /\ pc \in {"awaitFetch", "awaitJson"}
    /\ loading' = FALSE
    /\ loadingSets' = loadingSets + 1
    /\ pc' = "done"
    /\ lastOp' = Op(IF pc = "awaitFetch" THEN "fetchFailed" ELSE "jsonFailed",
                    token, Null)
    /\ UNCHANGED <<localStorage, themeVars, isAuthenticated, user, token,
                   requests, mounts, routeVars>>
    /\ UNCHANGED <<rejection, loggedOut>>

\* The success branch without setUser(userData).
VerifiedNoSetUser(userData) ==
    /\ pc = "awaitJson"
    /\ isAuthenticated' = TRUE
    /\ loading' = FALSE
    /\ loadingSets' = loadingSets + 1
    /\ pc' = "done"
    /\ lastOp' = Op("verified", token, userData)
    /\ UNCHANGED <<localStorage, themeVars, user, token, requests, mounts,
                   routeVars>>
    /\ UNCHANGED <<rejection, loggedOut>>

\* The success branch ignoring the response once login() has set a session.
VerifiedUnlessLoggedIn(userData) ==
    /\ pc = "awaitJson"
    /\ isAuthenticated' = TRUE
    /\ user' = IF isAuthenticated THEN user ELSE userData
    /\ loading' = FALSE
    /\ loadingSets' = loadingSets + 1
    /\ pc' = "done"
    /\ lastOp' = Op("verified", token, userData)
    /\ UNCHANGED <<localStorage, themeVars, token, requests, mounts, routeVars>>
    /\ UNCHANGED <<rejection, loggedOut>>

\* `await response.json()` resolves with the parsed body: the rest of the
\* success branch, then finally.
Verified(userData) ==
    /\ pc = "awaitJson"
    /\ isAuthenticated' = TRUE
    /\ user' = userData
    /\ loading' = FALSE
    /\ loadingSets' = loadingSets + 1
    /\ pc' = "done"
    /\ lastOp' = Op("verified", token, userData)
    /\ UNCHANGED <<localStorage, themeVars, token, requests, mounts, routeVars>>
    /\ UNCHANGED <<rejection, loggedOut>>

\* login() putting the session back into loading.
loginSetsLoading(newToken, userData) ==
    /\ pc # "mount"
    /\ localStorage' = setItem(localStorage, TokenKey, newToken)
    /\ isAuthenticated' = TRUE
    /\ user' = userData
    /\ loading' = TRUE
    /\ lastOp' = Op("login", newToken, userData)
    /\ UNCHANGED <<themeVars, bootVars, mounts, routeVars>>
    /\ rejection' = IF rejection = "rejected" THEN "rejectedLogin"
                    ELSE rejection
    /\ loggedOut' = FALSE

\* login() without the write to the store.
loginNoPersist(newToken, userData) ==
    /\ pc # "mount"
    /\ isAuthenticated' = TRUE
    /\ user' = userData
    /\ lastOp' = Op("login", newToken, userData)
    /\ UNCHANGED <<localStorage, themeVars, loading, bootVars, mounts,
                   routeVars>>
    /\ rejection' = IF rejection = "rejected" THEN "rejectedLogin"
                    ELSE rejection
    /\ loggedOut' = FALSE

login(newToken, userData) ==
    /\ pc # "mount"
    /\ localStorage' = setItem(localStorage, TokenKey, newToken)
    /\ isAuthenticated' = TRUE
    /\ user' = userData
    /\ lastOp' = Op("login", newToken, userData)
    /\ UNCHANGED <<themeVars, loading, bootVars, mounts, routeVars>>
    /\ rejection' = IF rejection = "rejected" THEN "rejectedLogin"
                    ELSE rejection
    /\ loggedOut' = FALSE

\* logout() without setUser(null).
logoutKeepsUser ==
    /\ pc # "mount"
    /\ localStorage' = removeItem(localStorage, TokenKey)
    /\ isAuthenticated' = FALSE
    /\ lastOp' = Op("logout", Null, Null)
    /\ UNCHANGED <<themeVars, user, loading, bootVars, mounts, routeVars>>
    /\ UNCHANGED rejection
    /\ loggedOut' = TRUE

\* logout() clearing the whole store instead of removing the token key.
logoutClearsStore ==
    /\ pc # "mount"
    /\ localStorage' = [key \in DOMAIN localStorage |-> Null]
    /\ isAuthenticated' = FALSE
    /\ user' = Null
    /\ lastOp' = Op("logout", Null, Null)
    /\ UNCHANGED <<themeVars, loading, bootVars, mounts, routeVars>>
    /\ UNCHANGED rejection
    /\ loggedOut' = TRUE

\* logout() flipping the flag instead of clearing it.
logoutToggles ==
    /\ pc # "mount"
    /\ localStorage' = removeItem(localStorage, TokenKey)
    /\ isAuthenticated' = ~isAuthenticated
    /\ user' = Null
    /\ lastOp' = Op("logout", Null, Null)
    /\ UNCHANGED <<themeVars, loading, bootVars, mounts, routeVars>>
    /\ UNCHANGED rejection
    /\ loggedOut' = TRUE

logout ==
    /\ pc # "mount"
    /\ localStorage' = removeItem(localStorage, TokenKey)
    /\ isAuthenticated' = FALSE
    /\ user' = Null
    /\ lastOp' = Op("logout", Null, Null)
    /\ UNCHANGED <<themeVars, loading, bootVars, mounts, routeVars>>
    /\ UNCHANGED rejection
    /\ loggedOut' = TRUE

\* ------------------------------------------------------- shell and routing

\* WelcomeScreen's onGetStarted.
GetStarted ==
    /\ pc # "mount"
    /\ ~started
    /\ started' = TRUE
    /\ lastOp' = Op("getStarted", Null, Null)
    /\ UNCHANGED <<localStorage, themeVars, authVars, bootVars, mounts,
                   history, idx>>
    /\ UNCHANGED <<rejection, loggedOut>>

\* A link of the rendered application pushes a new location (a link to the
\* current location pushes nothing).
GoTo(path) ==
    /\ started
    /\ path # location
    /\ idx < MaxHistory
    /\ history' = Append(SubSeq(history, 1, idx), path)
    /\ idx' = idx + 1
    /\ lastOp' = Op("goTo", Null, Null)
    /\ UNCHANGED <<localStorage, themeVars, authVars, bootVars, mounts, started>>
    /\ UNCHANGED <<rejection, loggedOut>>

\* The browser's back button.
Back ==
    /\ pc # "mount"
    /\ idx > 1
    /\ idx' = idx - 1
    /\ lastOp' = Op("back", Null, Null)
    /\ UNCHANGED <<localStorage, themeVars, authVars, bootVars, mounts,
                   started, history>>
    /\ UNCHANGED <<rejection, loggedOut>>

\* <Navigate to="/auth" replace />, rendered by ProtectedRoute.
Navigate ==
    /\ AppContent = "navigate"
    /\ history' = [history EXCEPT ![idx] = "/auth"]
    /\ lastOp' = Op("navigate", Null, Null)
    /\ UNCHANGED <<localStorage, themeVars, authVars, bootVars, mounts,
                   started, idx>>
    /\ UNCHANGED <<rejection, loggedOut>>

\* The page is loaded again: the store and the browser history survive, the
\* component tree is built anew and a pending verification is dropped.
Reload ==
    /\ pc # "mount"
    /\ mounts < MaxMounts
    /\ mounts' = mounts + 1
    /\ isDark' = TRUE
    /\ effectDark' = TRUE
    /\ darkClass' = FALSE
    /\ isAuthenticated' = FALSE
    /\ user' = Null
    /\ loading' = TRUE
    /\ pc' = "mount"
    /\ token' = Null
    /\ requests' = 0
    /\ loadingSets' = 0
    /\ started' = FALSE
    /\ lastOp' = Op("reload", Null, Null)
    /\ UNCHANGED <<localStorage, history, idx>>
    /\ rejection' = CASE rejection = "rejected" -> "prevRejected"
                      [] rejection = "rejectedLogin" -> "prevRejectedLogin"
                      [] OTHER -> "none"
    /\ loggedOut' = FALSE

\* ------------------------------------------------------------ specification

Next ==
    \/ Mount
    \/ ThemeEffect
    \/ toggleTheme
    \/ ResponseOk
    \/ ResponseNotOk
    \/ AuthCheckFailed
    \/ \E userData \in UserData : Verified(userData)
    \/ \E newToken \in Tokens, userData \in UserData : login(newToken, userData)
    \/ logout
    \/ GetStarted
    \/ \E path \in Paths : GoTo(path)
    \/ Back
    \/ Navigate
    \/ Reload

Spec == Init /\ [][Next]_vars

\* checkAuthStatus resuming after an await, whatever the outcome.
Resolve ==
    \/ ResponseOk
    \/ ResponseNotOk
    \/ AuthCheckFailed
    \/ \E userData \in UserData : Verified(userData)

\* The steps of the two providers and the page load.  The shell's routing
\* steps (GetStarted, GoTo, Back, Navigate) read the session and write none
\* of it, so the progress of checkAuthStatus does not depend on them.
NextProviders ==
    \/ Mount
    \/ ThemeEffect
    \/ toggleTheme
    \/ Resolve
    \/ \E newToken \in Tokens, userData \in UserData : login(newToken, userData)
    \/ logout
    \/ Reload

\* The event loop runs the mount effects, and a request that was issued
\* completes: with a response, or with a transport or parse failure.
SpecFair ==
    Init /\ [][NextProviders]_vars /\ WF_vars(Mount) /\ WF_vars(Resolve)

\* ------------------------------------------------------------------ claims

persistedToken == getItem(localStorage, TokenKey)

\* C1: for every mount with a persisted token whose verification request
\* returns a non-success status, the session resolves to
\* isAuthenticated = false and the persisted token key is absent afterwards.
\* Stated of the state the non-success response leaves.
C1_RejectedResolvesUnauthenticated ==
    lastOp.op = "responseNotOk" =>
        /\ ~isAuthenticated
        /\ persistedToken = Null

\* C2: for every mount with a persisted token whose verification request
\* returns a success status and a parseable body, the session resolves to
\* loading = false, isAuthenticated = true and user equal to the body.
C2_VerifiedResolvesToBody ==
    lastOp.op = "verified" =>
        /\ Truthy(token)
        /\ lastOp.token = token
        /\ requests = 1
        /\ ~loading
        /\ isAuthenticated
        /\ user = lastOp.userData

C2_Witness ==
    /\ lastOp.op = "verified"
    /\ user = "alice"
    /\ isAuthenticated
    /\ ~loading

\* C3: for every mount with no persisted token (getItem gave null; the empty
\* string is treated alike by `if (token)`), the mount effect itself resolves
\* the session to loading = false and isAuthenticated = false, and no
\* verification request is issued at any time during that mount.
C3_NoTokenNoRequest ==
    (pc # "mount" /\ ~Truthy(token)) =>
        /\ requests = 0
        /\ pc = "done"
        /\ ~loading
        /\ lastOp.op = "mount" => ~isAuthenticated

C3_Witness ==
    /\ lastOp.op = "mount"
    /\ token = Null
    /\ persistedToken = Null
    /\ ~loading
    /\ ~isAuthenticated

\* A later state of a mount that found no token: login() has been called and
\* still no request was issued.
C3_WitnessLater ==
    /\ token = Null
    /\ pc = "done"
    /\ isAuthenticated
    /\ requests = 0

\* C4: in every reachable state, isAuthenticated = true implies that user is
\* present (not null).
C4_AuthenticatedImpliesUser ==
    isAuthenticated => user # Null

\* C5: in every reachable state, under every interleaving of the in-flight
\* verification response with login() and logout(), isAuthenticated = true
\* implies that the key 'inboxly-token' is present in the persisted store.
C5_AuthenticatedImpliesToken ==
    isAuthenticated => persistedToken # Null

\* The bookkeeping of setLoading(false): loading is true from the mount until
\* the one call that clears it, which is also where checkAuthStatus ends.
C6_LoadingState ==
    /\ lastOp.op \in {"init", "reload"} => loading
    /\ loadingSets <= 1
    /\ loading <=> loadingSets = 0
    /\ pc = "done" <=> loadingSets = 1

\* C6: loading starts true at mount, is set to false exactly once per mount
\* (whichever branch checkAuthStatus takes), and once false it is never true
\* again during that mount, whatever login() and logout() calls follow.
C6_LoadingOnce ==
    /\ []C6_LoadingState
    /\ [][(~loading /\ mounts' = mounts) => ~loading']_vars

C6_Witness ==
    /\ ~loading
    /\ loadingSets = 1
    /\ lastOp.op = "logout"
    /\ token # Null

\* C7: when the verification request fails at transport level or its success
\* body cannot be parsed, the persisted token is left exactly as it was,
\* isAuthenticated and user are left as they were (false and absent when
\* nothing else set them), and the only state change is loading becoming
\* false.
C7_FailureKeepsSession ==
    [][lastOp'.op \in {"fetchFailed", "jsonFailed"} =>
          /\ loading /\ ~loading'
          /\ localStorage' = localStorage
          /\ isAuthenticated' = isAuthenticated
          /\ user' = user
          /\ ~isAuthenticated => (~isAuthenticated' /\ user' = Null)
          /\ UNCHANGED <<themeVars, routeVars, requests>>]_vars

C7_Witness ==
    /\ lastOp.op = "jsonFailed"
    /\ persistedToken = "abc"
    /\ token = "abc"
    /\ ~isAuthenticated
    /\ user = Null
    /\ ~loading

\* C8: login(token, userData) called in any state persists token under
\* 'inboxly-token', sets isAuthenticated = true and user = userData, issues
\* no verification request and leaves loading unchanged.
C8_LoginEffect ==
    [][lastOp'.op = "login" =>
          /\ persistedToken' = lastOp'.token
          /\ isAuthenticated'
          /\ user' = lastOp'.userData
          /\ requests' = requests
          /\ pc' = pc
          /\ loading' = loading]_vars

C8_Witness ==
    /\ lastOp.op = "login"
    /\ lastOp.token = "xyz"
    /\ lastOp.stored = "abc"
    /\ persistedToken = "xyz"
    /\ user = "bob"
    /\ loading
    /\ pc = "awaitFetch"

\* C9: logout() is idempotent: called in a state that is already
\* unauthenticated with no persisted token it leaves the whole state
\* unchanged, and a logout() right after a logout() changes nothing.
C9_LogoutIdempotent ==
    [][(/\ lastOp'.op = "logout"
        /\ \/ lastOp.op = "logout"
           \/ (~isAuthenticated /\ user = Null /\ persistedToken = Null))
       => /\ ~isAuthenticated' /\ user' = Null /\ persistedToken' = Null
          /\ UNCHANGED <<localStorage, themeVars, authVars, bootVars, mounts,
                         routeVars>>]_vars

C9_Witness ==
    /\ lastOp.op = "logout"
    /\ ~lastOp.auth
    /\ lastOp.stored = Null
    /\ ~isAuthenticated
    /\ user = Null
    /\ persistedToken = Null

\* What the guarded route shows, case by case of the session.
C10_GuardView ==
    (started /\ location = "/profile") =>
        /\ loading => AppContent = "spinner"
        /\ (~loading /\ isAuthenticated) => AppContent = "children"
        /\ (~loading /\ ~isAuthenticated) => AppContent = "navigate"

\* C10: the route guard is a function of the current session alone:
\* loading gives the waiting indicator, loading = false with
\* isAuthenticated = true gives the protected content, loading = false with
\* isAuthenticated = false gives a redirect to /auth; the redirect replaces
\* the current history entry, so the entry behind it is not the guarded
\* route.
C10_RouteGuard ==
    /\ []C10_GuardView
    /\ [][lastOp'.op = "navigate" =>
             /\ started /\ location = "/profile"
             /\ ~loading /\ ~isAuthenticated
             /\ idx' = idx
             /\ history' = [history EXCEPT ![idx] = "/auth"]
             /\ idx' > 1 => history'[idx' - 1] # "/profile"]_vars

C10_Witness ==
    /\ lastOp.op = "navigate"
    /\ location = "/auth"
    /\ idx = 2
    /\ history[1] = "/"
    /\ ~loading
    /\ ~isAuthenticated

\* C11 as claimed: after a mount whose verification was rejected, the next
\* mount issues no verification request.
C11_NextMountNoRequest ==
    rejection \in {"prevRejected", "prevRejectedLogin"} => requests = 0

\* C11: after a mount whose verification was rejected, the next mount reads
\* no token and issues no verification request, provided login() was not
\* called between the rejection and that mount.
C11_NextMountNoRequestUnlessLogin ==
    rejection = "prevRejected" =>
        /\ requests = 0
        /\ pc # "mount" => (token = Null /\ pc = "done")

C11_Witness ==
    /\ rejection = "prevRejected"
    /\ lastOp.op = "mount"
    /\ mounts = 2
    /\ requests = 0
    /\ ~loading

persistedTheme == getItem(localStorage, ThemeKey)

\* C12: toggleTheme() flips isDark, so calling it twice returns isDark to its
\* original value (the effect in between leaves isDark alone), and once a
\* toggle has taken effect the persisted 'inboxly-theme' string is the
\* canonical string of the in-memory value.
C12_ToggleRoundTrip ==
    /\ [](pc # "mount" => persistedTheme = Canonical(effectDark))
    /\ []((pc # "mount" /\ isDark = effectDark) =>
             /\ persistedTheme = Canonical(isDark)
             /\ darkClass = isDark)
    /\ [][lastOp'.op = "toggleTheme" => isDark' = ~isDark]_vars
    /\ [][lastOp'.op = "themeEffect" =>
             /\ isDark' = isDark
             /\ persistedTheme' = Canonical(isDark)]_vars
    /\ [][(lastOp.op = "toggleTheme" /\ lastOp'.op = "toggleTheme") =>
             isDark' = lastOp.dark]_vars

\* A toggle away from dark and a toggle back have both taken effect.
C12_Witness ==
    /\ lastOp.op = "themeEffect"
    /\ lastOp.theme = "light"
    /\ isDark
    /\ effectDark
    /\ persistedTheme = "dark"

\* C13: the mount effects leave isDark false if the persisted theme string
\* was exactly 'light', true if it was exactly 'dark', and true for any other
\* or absent value; the re-render that follows keeps that value, and once it
\* has run the persisted string is the canonical string of isDark.
C13_ThemeInitialization ==
    /\ [](lastOp.op = "mount" =>
             /\ lastOp.theme = "light" => ~isDark
             /\ lastOp.theme = "dark" => isDark
             /\ lastOp.theme \notin {"light", "dark"} => isDark
             /\ isDark = effectDark => persistedTheme = Canonical(isDark))
    /\ [][(lastOp.op = "mount" /\ lastOp'.op = "themeEffect") =>
             /\ lastOp.theme = "light"
             /\ isDark' = isDark
             /\ isDark' = effectDark'
             /\ persistedTheme' = Canonical(isDark')]_vars

\* The saved 'light' has been read and the re-render has settled.
C13_Witness ==
    /\ lastOp.op = "themeEffect"
    /\ lastOp.theme = "dark"
    /\ ~isDark
    /\ ~effectDark
    /\ persistedTheme = "light"
    /\ ~darkClass

\* An unrecognized saved string keeps the default.
C13_WitnessDefault ==
    /\ lastOp.op = "mount"
    /\ lastOp.theme = "blue"
    /\ isDark
    /\ persistedTheme = "dark"

\* C14: if login() is called while the verification request issued at mount
\* is in flight, the response that arrives later is applied over the session
\* login() set: a success replaces user by the verified record, a
\* non-success deletes the token login() wrote.  (A session that is already
\* authenticated when the response arrives was set by login() in flight.)
C14_LateResponseOverwrites ==
    /\ (lastOp.op = "verified" /\ lastOp.auth) =>
           /\ isAuthenticated
           /\ user = lastOp.userData
    /\ (lastOp.op = "responseNotOk" /\ lastOp.auth) =>
           /\ isAuthenticated
           /\ user = lastOp.user
           /\ persistedToken = Null

\* login("xyz", bob) ran in flight; the verified record alice replaced bob.
C14_Witness ==
    /\ lastOp.op = "verified"
    /\ lastOp.auth
    /\ lastOp.user = "bob"
    /\ lastOp.stored = "xyz"
    /\ token = "abc"
    /\ user = "alice"
    /\ isAuthenticated

\* login("xyz", bob) ran in flight; the rejection of "abc" deleted "xyz".
C14_WitnessTokenDeleted ==
    /\ lastOp.op = "responseNotOk"
    /\ lastOp.auth
    /\ lastOp.stored = "xyz"
    /\ token = "abc"
    /\ persistedToken = Null
    /\ isAuthenticated
    /\ user = "bob"

\* C15: within a page load, once the guard has left PENDING it never
\* re-enters it: from an AUTHORIZED guard logout() makes the next evaluation
\* DENIED (the redirect), from a DENIED guard login() makes it AUTHORIZED,
\* and no step brings the waiting indicator back.
C15_GuardNeverPendingAgain ==
    /\ [][(ProtectedRoute(isAuthenticated, loading) # "spinner"
           /\ mounts' = mounts)
          => ProtectedRoute(isAuthenticated', loading') # "spinner"]_vars
    /\ [][(lastOp'.op = "logout"
           /\ ProtectedRoute(isAuthenticated, loading) = "children")
          => ProtectedRoute(isAuthenticated', loading') = "navigate"]_vars
    /\ [][(lastOp'.op = "login"
           /\ ProtectedRoute(isAuthenticated, loading) = "navigate")
          => ProtectedRoute(isAuthenticated', loading') = "children"]_vars

\* logout() on the guarded route of an authorized session: the guard now
\* redirects.
C15_Witness ==
    /\ lastOp.op = "logout"
    /\ lastOp.auth
    /\ ~loading
    /\ started
    /\ location = "/profile"
    /\ AppContent = "navigate"

\* login() in a denied session: the guard now shows the protected content.
C15_WitnessLogin ==
    /\ lastOp.op = "login"
    /\ ~lastOp.auth
    /\ ~loading
    /\ started
    /\ location = "/profile"
    /\ AppContent = "children"

\* C16: if an issued verification request eventually completes (success,
\* non-success, transport or parse failure), loading eventually becomes
\* false; every branch ends checkAuthStatus with loading = false, none
\* leaves it true or escapes the try block.
C16_LoadingEventuallyFalse ==
    /\ [](pc = "done" => ~loading)
    /\ [](pc \in {"mount", "awaitFetch", "awaitJson"} => loading)
    /\ loading ~> ~loading

\* The failure branch has resolved the session.
C16_Witness ==
    /\ lastOp.op = "fetchFailed"
    /\ pc = "done"
    /\ ~loading
    /\ requests = 1

\* C17: a logout() is final until the next login(): once logout() has been
\* called, isAuthenticated stays false and user stays absent in every later
\* state until login() is called, also when the success response of the
\* mount-time verification arrives after the logout().
C17_LogoutFinalUntilLogin ==
    loggedOut => (~isAuthenticated /\ user = Null)

\* C18: in every reachable state user is present only if isAuthenticated is
\* true (isAuthenticated = false implies user is absent); no sequence of
\* mount, verification response, login and logout events leaves a user
\* record behind in an unauthenticated session.
C18_UserImpliesAuthenticated ==
    ~isAuthenticated => user = Null

\* logout() has just cleared a session that held a user record.
C18_Witness ==
    /\ lastOp.op = "logout"
    /\ lastOp.auth
    /\ lastOp.user = "alice"
    /\ ~isAuthenticated
    /\ user = Null

\* C19: mounting ThemeProvider never changes the stored preference on its
\* own: if the persisted theme is 'light' at mount, the mount effects do not
\* write 'dark' to 'inboxly-theme'.
C19_MountKeepsSavedLight ==
    (lastOp.op = "mount" /\ lastOp.theme = "light") => persistedTheme # "dark"

\* C20: theme and session are independent: toggleTheme() (and the effect
\* that follows it) leaves isAuthenticated, user, loading and the persisted
\* token unchanged; login(), logout() and every step of the verification
\* leave isDark and the persisted theme string unchanged.
C20_ThemeSessionIndependent ==
    /\ [][lastOp'.op \in {"toggleTheme", "themeEffect"} =>
             /\ UNCHANGED <<isAuthenticated, user, loading>>
             /\ persistedToken' = persistedToken
             /\ UNCHANGED <<pc, requests>>]_vars
    /\ [][lastOp'.op \in {"login", "logout", "responseOk", "responseNotOk",
                          "fetchFailed", "jsonFailed", "verified"} =>
             /\ UNCHANGED <<isDark, effectDark, darkClass>>
             /\ persistedTheme' = persistedTheme]_vars

\* logout() in a session whose theme was toggled to light: the theme stays.
C20_Witness ==
    /\ lastOp.op = "logout"
    /\ lastOp.auth
    /\ ~isDark
    /\ persistedTheme = "light"
    /\ lastOp.theme = "light"
    /\ persistedToken = Null

\* toggleTheme() in an authenticated session still loading: the session stays.
C20_WitnessToggle ==
    /\ lastOp.op = "toggleTheme"
    /\ isAuthenticated
    /\ user = "alice"
    /\ loading
    /\ persistedToken = "abc"

====
